---------------------------- MODULE Spec2Model ----------------------------
(***************************************************************************)
(* Model of packages/expo-router/src/typed-routes/generate.ts:             *)
(* getTypedRoutesDeclarationFile, groupRouteNodes and contextKeyToType.    *)
(*                                                                         *)
(* A JavaScript string is a sequence of atoms.  An atom is a one-character *)
(* string, or one of the fixed texts the code inserts as a whole and never *)
(* scans again: urlParams, the two dynamic placeholders, and the pieces    *)
(* "${", "'", " | ", "}" of an enumerated placeholder.  Concatenating the  *)
(* atoms of a sequence gives the text the code produces.                   *)
(***************************************************************************)
EXTENDS Integers, Sequences, FiniteSets, TLC

VARIABLES
    pc,                  \* "idle" before a call, "done" after it returned
    routeNode,           \* generate.ts:27 the tree of the call, NullNode for null
    partialTypedGroups,  \* generate.ts:23 option
    testIgnoreComments,  \* generate.ts:24 option
    groupedNodes,        \* generate.ts:43 the collection the call classified
    doc,                 \* generate.ts:116 the returned document
    getRoutesResult,     \* generate.ts:30 what the tree builder did in the call
    first,               \* the first call of a run: its input and its document
    typeCall,            \* which call site of contextKeyToType was taken
    typeKey,             \* the classified key that call site started from
    contextKey,          \* generate.ts:201 argument of contextKeyToType
    typePattern          \* generate.ts:203,235 what contextKeyToType returned

vars ==
    <<pc, routeNode, partialTypedGroups, testIgnoreComments, groupedNodes, doc,
      getRoutesResult, first, typeCall, typeKey, contextKey, typePattern>>

---------------------------------------------------------------------------
(* Bounds *)

\* Most path segments in a key handed to contextKeyToType.
MaxSegments == 3

\* Most nodes in a route tree handed to groupRouteNodes.
MaxNodes == 3

---------------------------------------------------------------------------
(* String helpers (JavaScript String methods on sequences of atoms) *)

\* s.startsWith(p)
StartsWith(s, p) ==
    /\ Len(s) >= Len(p)
    /\ SubSeq(s, 1, Len(p)) = p

\* s.endsWith(p)
EndsWith(s, p) ==
    /\ Len(s) >= Len(p)
    /\ SubSeq(s, Len(s) - Len(p) + 1, Len(s)) = p

\* The least index j >= from with s[j] = c, or 0 when there is none.
IndexFrom(s, c, from) ==
    LET hits == {j \in from..Len(s) : s[j] = c}
    IN  IF hits = {} THEN 0 ELSE CHOOSE j \in hits : \A k \in hits : j <= k

RECURSIVE Split(_, _)
\* s.split(sep) for a one-atom separator: "" splits to [""].
Split(s, sep) ==
    LET j == IndexFrom(s, sep, 1)
    IN  IF j = 0
        THEN <<s>>
        ELSE <<SubSeq(s, 1, j - 1)>> \o Split(SubSeq(s, j + 1, Len(s)), sep)

RECURSIVE Join(_, _)
\* parts.join(sep)
Join(parts, sep) ==
    IF parts = <<>> THEN <<>>
    ELSE IF Len(parts) = 1 THEN parts[1]
    ELSE parts[1] \o sep \o Join(Tail(parts), sep)

RECURSIVE Flatten(_)
\* parts.join('')
Flatten(parts) ==
    IF parts = <<>> THEN <<>> ELSE parts[1] \o Flatten(Tail(parts))

---------------------------------------------------------------------------
(* generate.ts:6-13 the regular expressions and urlParams *)

\* generate.ts:13
urlParams == "${`?${string}` | `#${string}` | ''}"

\* generate.ts:88 the replacement of a catch-all segment
StringSlot == "${string}"

\* generate.ts:89 the replacement of a slug segment
SingleRoutePartSlot == "${Router.SingleRoutePart<T>}"

\* Where the leftmost match of GROUP = /(?:^|\/)\(.*?\)/ at or after `from`
\* starts and ends (<<0, 0>>: no match).  `^` matches at index 1 only; the lazy
\* .*? stops at the first ")" after the "(".
GROUP(s, from) ==
    LET open(i) ==
            IF i = 1 /\ s[1] = "(" THEN 1
            ELSE IF s[i] = "/" /\ i < Len(s) /\ s[i + 1] = "(" THEN i + 1
            ELSE 0
        starts == {i \in from..Len(s) :
                     open(i) # 0 /\ IndexFrom(s, ")", open(i) + 1) # 0}
    IN  IF starts = {} THEN <<0, 0>>
        ELSE LET i == CHOOSE x \in starts : \A y \in starts : x <= y
             IN  <<i, IndexFrom(s, ")", open(i) + 1)>>

\* Leftmost match of CATCH_ALL = /\[\.\.\..+?\]/ at or after `from`.
CATCH_ALL(s, from) ==
    LET starts == {i \in from..Len(s) :
                     /\ i + 3 <= Len(s)
                     /\ SubSeq(s, i, i + 3) = <<"[", ".", ".", ".">>
                     /\ IndexFrom(s, "]", i + 5) # 0}
    IN  IF starts = {} THEN <<0, 0>>
        ELSE LET i == CHOOSE x \in starts : \A y \in starts : x <= y
             IN  <<i, IndexFrom(s, "]", i + 5)>>

\* Leftmost match of SLUG = /\[.+?\]/ at or after `from`.
SLUG(s, from) ==
    LET starts == {i \in from..Len(s) :
                     s[i] = "[" /\ IndexFrom(s, "]", i + 2) # 0}
    IN  IF starts = {} THEN <<0, 0>>
        ELSE LET i == CHOOSE x \in starts : \A y \in starts : x <= y
             IN  <<i, IndexFrom(s, "]", i + 2)>>

RECURSIVE ReplaceAllCatchAll(_, _)
\* generate.ts:88 s.replaceAll(CATCH_ALL, '${string}'), scanning from `from`
ReplaceAllCatchAll(s, from) ==
    LET m == CATCH_ALL(s, from)
    IN  IF m[1] = 0
        THEN SubSeq(s, from, Len(s))
        ELSE SubSeq(s, from, m[1] - 1) \o <<StringSlot>>
               \o ReplaceAllCatchAll(s, m[2] + 1)

RECURSIVE ReplaceAllSlug(_, _)
\* generate.ts:89 s.replaceAll(SLUG, '${Router.SingleRoutePart<T>}')
ReplaceAllSlug(s, from) ==
    LET m == SLUG(s, from)
    IN  IF m[1] = 0
        THEN SubSeq(s, from, Len(s))
        ELSE SubSeq(s, from, m[1] - 1) \o <<SingleRoutePartSlot>>
               \o ReplaceAllSlug(s, m[2] + 1)

---------------------------------------------------------------------------
(* generate.ts:201-236 contextKeyToType *)

\* generate.ts:212 groups.split(',').map((group) => `'/(${group})'`)
GroupsAsTypeLabels(groups) ==
    LET labels == Split(groups, ",")
    IN  [i \in 1..Len(labels) |-> <<"'", "/", "(">> \o labels[i] \o <<")", "'">>]

\* Mutant: the empty alternative of `partialRoutes` is never pushed.
GroupsAsTypeNoSkip(groups, partial) ==
    GroupsAsTypeLabels(groups)

\* generate.ts:214-216 `partialRoutes` allow you to skip a group
GroupsAsType(groups, partial) ==
    IF partial
    THEN Append(GroupsAsTypeLabels(groups), <<"'", "'">>)
    ELSE GroupsAsTypeLabels(groups)

\* generate.ts:210 the test that turns a group into a template
IsTemplatedGroup(groups, partial) ==
    Len(groups) > 1 \/ partial

\* generate.ts:207-222 the replaceAll callback for one match
GroupReplacement(match, partial) ==
    LET groups == SubSeq(match, 3, Len(match) - 1)   \* match.slice(2, -1)
    IN  IF IsTemplatedGroup(groups, partial)
        THEN <<"${">> \o Join(GroupsAsType(groups, partial), <<" | ">>) \o <<"}">>
        ELSE match

RECURSIVE ReplaceAllGroupByTemplate(_, _, _)
\* generate.ts:207 contextKey.replaceAll(GROUP, (match) => ...)
ReplaceAllGroupByTemplate(s, from, partial) ==
    LET m == GROUP(s, from)
    IN  IF m[1] = 0
        THEN SubSeq(s, from, Len(s))
        ELSE SubSeq(s, from, m[1] - 1)
               \o GroupReplacement(SubSeq(s, m[1], m[2]), partial)
               \o ReplaceAllGroupByTemplate(s, m[2] + 1, partial)

RECURSIVE ReplaceAllGroupByEmpty(_, _)
\* generate.ts:224 contextKey.replaceAll(GROUP, '')
ReplaceAllGroupByEmpty(s, from) ==
    LET m == GROUP(s, from)
    IN  IF m[1] = 0
        THEN SubSeq(s, from, Len(s))
        ELSE SubSeq(s, from, m[1] - 1) \o ReplaceAllGroupByEmpty(s, m[2] + 1)

\* Mutant: the `|| '/'` of line 224 is missing.
TypeWithoutGroupsNoRoot(key) ==
    LET typeWithoutGroups == ReplaceAllGroupByEmpty(key, 1)
    IN  IF StartsWith(typeWithoutGroups, <<urlParams>>)
        THEN <<"/">> \o typeWithoutGroups
        ELSE typeWithoutGroups

\* generate.ts:224-233
TypeWithoutGroups(key) ==
    LET removed == ReplaceAllGroupByEmpty(key, 1)
        typeWithoutGroups == IF removed = <<>> THEN <<"/">> ELSE removed
    IN  IF StartsWith(typeWithoutGroups, <<urlParams>>)
        THEN <<"/">> \o typeWithoutGroups
        ELSE typeWithoutGroups

\* generate.ts:201-236: the returned union as the sequence of its template
\* literals (each is wrapped in backticks, and they are joined with " | ").
contextKeyToType(key, partial) ==
    IF GROUP(key, 1)[1] = 0
    THEN <<key>>
    ELSE <<ReplaceAllGroupByTemplate(key, 1, partial), TypeWithoutGroups(key)>>

---------------------------------------------------------------------------
(* RouteNode (imported type, generate.ts:1) and the trees of the model *)

\* The value of `routeNode` when it is null (generate.ts:27).
NullNode ==
    [type |-> "null", route |-> <<>>, contextKey |-> <<>>, generated |-> FALSE,
     dynamic |-> FALSE, children |-> <<>>]

\* A childless node: the fields of RouteNode the code reads.
Leaf(type, route, key, generated, dynamic) ==
    [type |-> type, route |-> route, contextKey |-> key, generated |-> generated,
     dynamic |-> dynamic, children |-> <<>>]

\* './index.tsx'
IndexRoute ==
    Leaf("route", <<>>,
         <<".", "/", "i", "n", "d", "e", "x", ".", "t", "s", "x">>, FALSE, FALSE)

\* './a.tsx'
StaticRoute ==
    Leaf("route", <<"a">>, <<".", "/", "a", ".", "t", "s", "x">>, FALSE, FALSE)

\* './(a,b)/c.tsx'
GroupRoute ==
    Leaf("route", <<"(", "a", ",", "b", ")", "/", "c">>,
         <<".", "/", "(", "a", ",", "b", ")", "/", "c", ".", "t", "s", "x">>, FALSE, FALSE)

\* './blog/[id].tsx', flagged dynamic
SlugRoute ==
    Leaf("route", <<"b", "l", "o", "g", "/", "[", "i", "d", "]">>,
         <<".", "/", "b", "l", "o", "g", "/", "[", "i", "d", "]",
           ".", "t", "s", "x">>, FALSE, TRUE)

\* './blog/[id]/index.tsx', not flagged dynamic
UnflaggedSlugRoute ==
    Leaf("route", <<"b", "l", "o", "g", "/", "[", "i", "d", "]">>,
         <<".", "/", "b", "l", "o", "g", "/", "[", "i", "d", "]",
           "/", "i", "n", "d", "e", "x", ".", "t", "s", "x">>, FALSE, FALSE)

\* './blog/[...slug].tsx', flagged dynamic
CatchAllRoute ==
    Leaf("route", <<"b", "l", "o", "g", "/", "[", ".", ".", ".", "s", "l", "u", "g", "]">>,
         <<".", "/", "b", "l", "o", "g", "/", "[", ".", ".", ".", "s", "l", "u", "g", "]",
           ".", "j", "s">>, FALSE, TRUE)

\* '.\[...rest]\x\[id].ts' (a key with backslashes), flagged dynamic
BackslashRoute ==
    Leaf("route", <<"[", ".", ".", ".", "r", "e", "s", "t", "]", "/", "x", "/", "[", "i", "d", "]">>,
         <<".", "\\", "[", ".", ".", ".", "r", "e", "s", "t", "]", "\\", "x", "\\",
           "[", "i", "d", "]", ".", "t", "s">>, FALSE, TRUE)

\* A generated route whose route has no leading '/': '_sitemap'
GeneratedRoute ==
    Leaf("route", <<"_", "s", "i", "t", "e", "m", "a", "p">>,
         <<"S", "i", "t", "e", "m", "a", "p", ".", "j", "s">>, TRUE, FALSE)

\* A route whose contextKey is ''
EmptyKeyRoute ==
    Leaf("route", <<>>, <<>>, FALSE, FALSE)

\* A layout whose route is '' (the root layout has this shape)
EmptyLayout ==
    Leaf("layout", <<>>, <<".", "/", "_", "l", "a", "y", "o", "u", "t", ".", "t", "s", "x">>,
         FALSE, FALSE)

\* A non-route node whose route is not ''
NamedLayout ==
    Leaf("layout", <<"x">>,
         <<".", "/", "x", "/", "_", "l", "a", "y", "o", "u", "t", ".", "t", "s", "x">>,
         FALSE, FALSE)

Profiles ==
    {IndexRoute, SlugRoute, UnflaggedSlugRoute, CatchAllRoute, BackslashRoute,
     GeneratedRoute, EmptyKeyRoute, EmptyLayout, NamedLayout}

\* The shapes of the trees of n nodes: node 1 is the root and every other node
\* names an earlier node as its parent.
TreeShapes(n) ==
    {parent \in [2..n -> 1..n] : \A j \in 2..n : parent[j] < j}

RECURSIVE TreeAt(_, _, _)
RECURSIVE ChildrenFrom(_, _, _, _)
\* The children of node i among the nodes j, j + 1, ..., in that order.
ChildrenFrom(j, i, profiles, parent) ==
    IF j > Len(profiles) THEN <<>>
    ELSE (IF parent[j] = i THEN <<TreeAt(j, profiles, parent)>> ELSE <<>>)
           \o ChildrenFrom(j + 1, i, profiles, parent)

\* The subtree of node i: its profile with its children.
TreeAt(i, profiles, parent) ==
    [profiles[i] EXCEPT !.children = ChildrenFrom(i + 1, i, profiles, parent)]

---------------------------------------------------------------------------
(* generate.ts:133-199 groupRouteNodes *)

\* removeSupportedExtensions of ../matchers (generate.ts:3): strips the
\* supported file extension a key ends with.
removeSupportedExtensions(key) ==
    IF EndsWith(key, <<".", "t", "s", "x">>) \/ EndsWith(key, <<".", "j", "s", "x">>)
    THEN SubSeq(key, 1, Len(key) - 4)
    ELSE IF EndsWith(key, <<".", "t", "s">>) \/ EndsWith(key, <<".", "j", "s">>)
    THEN SubSeq(key, 1, Len(key) - 3)
    ELSE key

\* generate.ts:165 .replace(/\/index$/, '')
RemoveTrailingIndex(s) ==
    IF EndsWith(s, <<"/", "i", "n", "d", "e", "x">>)
    THEN SubSeq(s, 1, Len(s) - 6)
    ELSE s

\* generate.ts:166 .replace(/^\./, '')
RemoveLeadingDot(s) ==
    IF StartsWith(s, <<".">>) THEN Tail(s) ELSE s

\* generate.ts:159-167 the key before it is normalized
RawRouteKey(node) ==
    IF node.generated
    THEN node.route
    ELSE RemoveLeadingDot(RemoveTrailingIndex(removeSupportedExtensions(node.contextKey)))

\* generate.ts:169 routeKey ||= '/'
OrSlash(key) ==
    IF key = <<>> THEN <<"/">> ELSE key

\* Mutant: the '/' is prefixed without looking at the key.
AlwaysPrefixSlash(key) ==
    <<"/">> \o key

\* generate.ts:171-174
EnsureLeadingSlash(key) ==
    IF StartsWith(key, <<"/">>) THEN key ELSE <<"/">> \o key

\* generate.ts:176 routeKey.replace(/\\/g, '/')
NormalizeSlashes(key) ==
    [i \in 1..Len(key) |-> IF key[i] = "\\" THEN "/" ELSE key[i]]

\* generate.ts:157-176 the routeKey of a route node
RouteKey(node) ==
    NormalizeSlashes(EnsureLeadingSlash(OrSlash(RawRouteKey(node))))

\* generate.ts:183-185 the filter of the split key
IsBracketSegment(segment) ==
    StartsWith(segment, <<"[">>) /\ EndsWith(segment, <<"]">>)

\* Mutant: segment.slice(1) keeps the closing bracket.
ParamsNamesKeepBracket(key) ==
    LET segments == Split(key, "/")
        kept == SelectSeq(segments, IsBracketSegment)
    IN  [i \in 1..Len(kept) |-> Tail(kept[i])]

\* generate.ts:181-188 routeKey.split('/').filter(...).map(segment.slice(1, -1))
ParamsNames(key) ==
    LET segments == Split(key, "/")
        kept == SelectSeq(segments, IsBracketSegment)
    IN  [i \in 1..Len(kept) |-> SubSeq(kept[i], 2, Len(kept[i]) - 1)]

\* generate.ts:136-137 new Set(), new Map(): both in insertion order
EmptyGroupedContextKeys ==
    [static |-> <<>>, dynamic |-> <<>>]

\* Mutant: the default collection comes seeded with the root key.
SeededGroupedContextKeys ==
    [static |-> <<<<"/">>>>, dynamic |-> <<>>]

\* Mutant: one default object shared by all calls, as a default evaluated once
\* would be: each call goes on from the collection of the call before it.
SharedGroupedContextKeys ==
    groupedNodes

\* generate.ts:135-138 the default value of groupedContextKeys, evaluated anew
\* by each call that omits the argument.
DefaultGroupedContextKeys ==
    EmptyGroupedContextKeys

\* generate.ts:191 Set.prototype.add
SetAdd(set, key) ==
    IF \E i \in 1..Len(set) : set[i] = key THEN set ELSE Append(set, key)

\* generate.ts:179 Map.prototype.set: a present key keeps its place
MapSet(map, key, value) ==
    IF \E i \in 1..Len(map) : map[i].key = key
    THEN [i \in 1..Len(map) |->
            IF map[i].key = key THEN [key |-> key, value |-> value] ELSE map[i]]
    ELSE Append(map, [key |-> key, value |-> value])

\* Mutant: the `else` of line 190 is missing, every key is added to the set.
AddRouteKeyAlwaysStatic(node, grouped) ==
    IF node.dynamic
    THEN [grouped EXCEPT
            !.dynamic = MapSet(@, RouteKey(node), ParamsNames(RouteKey(node))),
            !.static = SetAdd(@, RouteKey(node))]
    ELSE [grouped EXCEPT !.static = SetAdd(@, RouteKey(node))]

\* generate.ts:178-192 the route node's own entry
AddRouteKey(node, grouped) ==
    IF node.dynamic
    THEN [grouped EXCEPT
            !.dynamic = MapSet(@, RouteKey(node), ParamsNames(RouteKey(node)))]
    ELSE [grouped EXCEPT !.static = SetAdd(@, RouteKey(node))]

\* generate.ts:147 whether a non-route node's children are visited
VisitsChildrenOfNonRoute(node) ==
    node.route = <<>>

RECURSIVE groupRouteNodesInto(_, _)
RECURSIVE GroupChildren(_, _)
\* generate.ts:148-150, 194-196 for (const child of routeNode.children)
GroupChildren(children, grouped) ==
    IF children = <<>> THEN grouped
    ELSE GroupChildren(Tail(children), groupRouteNodesInto(children[1], grouped))

\* generate.ts:133-199 with groupedContextKeys given
groupRouteNodesInto(node, grouped) ==
    IF node = NullNode THEN grouped
    ELSE IF node.type # "route"
    THEN IF VisitsChildrenOfNonRoute(node)
         THEN GroupChildren(node.children, grouped)
         ELSE grouped
    ELSE GroupChildren(node.children, AddRouteKey(node, grouped))

\* generate.ts:43 groupRouteNodes(routeNode): groupedContextKeys takes its default
groupRouteNodes(node) ==
    groupRouteNodesInto(node, DefaultGroupedContextKeys)

---------------------------------------------------------------------------
(* generate.ts:20-131 getTypedRoutesDeclarationFile *)

\* One member of a union of the document.  form tells the text around the
\* pathname; pathname is a sequence of template literals (or one generic type
\* name); fields are the `key: value;` pairs of a dynamic params object.
Entry(form, pathname, params, fields) ==
    [form |-> form, pathname |-> pathname, params |-> params, fields |-> fields]

\* generate.ts:44
GenericStrings ==
    <<Entry("generic-string", <<<<"Router.RelativePathString">>>>, "", <<>>),
      Entry("generic-string", <<<<"Router.ExternalPathString">>>>, "", <<>>)>>

\* generate.ts:45-48
GenericInputObjects ==
    <<Entry("generic-object", <<<<"Router.RelativePathString">>>>,
            "Router.UnknownInputParams", <<>>),
      Entry("generic-object", <<<<"Router.ExternalPathString">>>>,
            "Router.UnknownInputParams", <<>>)>>

\* generate.ts:49-52
GenericOutputObjects ==
    <<Entry("generic-object", <<<<"Router.RelativePathString">>>>,
            "Router.UnknownOutputParams", <<>>),
      Entry("generic-object", <<<<"Router.ExternalPathString">>>>,
            "Router.UnknownOutputParams", <<>>)>>

\* generate.ts:55 the bare-string call site: the key with urlParams appended
StaticStringArgument(type) ==
    type \o <<urlParams>>

\* generate.ts:86-90 the bare-string call site of a dynamic key
DynamicStringArgument(dynamicRouteTemplate) ==
    ReplaceAllSlug(ReplaceAllCatchAll(dynamicRouteTemplate, 1), 1)

\* generate.ts:54-62 what the loop pushes for the static keys
StaticRoutesStrings(static, partial) ==
    [i \in 1..Len(static) |->
       Entry("static-string", contextKeyToType(StaticStringArgument(static[i]), partial),
             "", <<>>)]

StaticRouteObjects(static, partial, params) ==
    [i \in 1..Len(static) |->
       Entry("static-object", contextKeyToType(static[i], partial), params, <<>>)]

\* generate.ts:71-72, 79-80 one parameter of a params object
ParamField(param, single, array) ==
    IF StartsWith(param, <<".", ".", ".">>)
    THEN [key |-> SubSeq(param, 4, Len(param)), value |-> array]
    ELSE [key |-> param, value |-> single]

\* generate.ts:69-75
InputParams(paramsNames) ==
    [i \in 1..Len(paramsNames) |->
       ParamField(paramsNames[i], "string | number", "(string | number)[]")]

\* generate.ts:77-83
OutputParams(paramsNames) ==
    [i \in 1..Len(paramsNames) |-> ParamField(paramsNames[i], "string", "string[]")]

\* generate.ts:85-92
DynamicRouteStrings(dynamic, partial) ==
    [i \in 1..Len(dynamic) |->
       Entry("dynamic-string",
             contextKeyToType(DynamicStringArgument(dynamic[i].key), partial), "", <<>>)]

\* generate.ts:94-96
DynamicRouteInputObjects(dynamic, partial) ==
    [i \in 1..Len(dynamic) |->
       Entry("dynamic-object", contextKeyToType(dynamic[i].key, partial),
             "Router.UnknownInputParams", InputParams(dynamic[i].value))]

\* generate.ts:97-99
DynamicRouteOutputObjects(dynamic, partial) ==
    [i \in 1..Len(dynamic) |->
       Entry("dynamic-object", contextKeyToType(dynamic[i].key, partial),
             "Router.UnknownOutputParams", OutputParams(dynamic[i].value))]

\* generate.ts:44-130 the document assembled from a collection
Declaration(grouped, partial, ignoreComments) ==
    LET staticRoutesStrings ==
            GenericStrings \o StaticRoutesStrings(grouped.static, partial)
        staticRouteInputObjects ==
            GenericInputObjects
              \o StaticRouteObjects(grouped.static, partial, "Router.UnknownInputParams")
        staticRouteOutputObjects ==
            GenericOutputObjects
              \o StaticRouteObjects(grouped.static, partial, "Router.UnknownOutputParams")
        dynamicRouteStrings == DynamicRouteStrings(grouped.dynamic, partial)
        dynamicRouteInputObjects == DynamicRouteInputObjects(grouped.dynamic, partial)
        dynamicRouteOutputObjects == DynamicRouteOutputObjects(grouped.dynamic, partial)
    IN  [tsExpectError |-> ignoreComments,
         hrefInputParams |-> staticRouteInputObjects \o dynamicRouteInputObjects,
         hrefOutputParams |-> staticRouteOutputObjects \o dynamicRouteOutputObjects,
         href |-> staticRoutesStrings \o staticRouteInputObjects
                    \o dynamicRouteStrings \o dynamicRouteInputObjects]

\* generate.ts:29-41 routeNode after the try/catch around getRoutes
RouteNodeAfterTry(result) ==
    IF result.threw THEN NullNode ELSE result.value

\* What getRoutes (generate.ts:2, a black box) may do: throw, return null, or
\* return a tree.
GetRoutesThrows ==
    [threw |-> TRUE, value |-> NullNode]

GetRoutesReturns(tree) ==
    [threw |-> FALSE, value |-> tree]

\* No call yet: the values of the call's locals before it.
NoDoc ==
    [tsExpectError |-> FALSE, hrefInputParams |-> <<>>, hrefOutputParams |-> <<>>,
     href |-> <<>>]

NoCall ==
    [calls |-> 0, result |-> GetRoutesReturns(NullNode),
     partial |-> FALSE, ignore |-> FALSE, doc |-> NoDoc]

TypeVarsIdle ==
    /\ typeCall = "none"
    /\ typeKey = <<>>
    /\ contextKey = <<>>
    /\ typePattern = <<>>

Init ==
    /\ pc = "idle"
    /\ routeNode = NullNode
    /\ partialTypedGroups = FALSE
    /\ testIgnoreComments = FALSE
    /\ groupedNodes = EmptyGroupedContextKeys
    /\ doc = NoDoc
    /\ getRoutesResult = GetRoutesReturns(NullNode)
    /\ first = NoCall
    /\ TypeVarsIdle

\* generate.ts:20-131 one call, from the tree builder's outcome to the return
Call(result, partial, ignoreComments) ==
    /\ getRoutesResult' = result
    /\ partialTypedGroups' = partial
    /\ testIgnoreComments' = ignoreComments
    /\ routeNode' = RouteNodeAfterTry(result)
    /\ groupedNodes' = groupRouteNodes(RouteNodeAfterTry(result))
    /\ doc' = Declaration(groupedNodes', partial, ignoreComments)
    /\ pc' = "done"
    /\ UNCHANGED <<typeCall, typeKey, contextKey, typePattern>>

\* A single call of getTypedRoutesDeclarationFile, testIgnoreComments left at
\* its default, on any outcome of getRoutes: a throw, null, or any tree of at
\* most MaxNodes nodes.
getTypedRoutesDeclarationFile ==
    /\ pc = "idle"
    /\ \E partial \in BOOLEAN :
         \/ Call(GetRoutesThrows, partial, FALSE)
         \/ Call(GetRoutesReturns(NullNode), partial, FALSE)
         \/ \E n \in 1..MaxNodes :
              \E profiles \in [1..n -> Profiles], parent \in TreeShapes(n) :
                 Call(GetRoutesReturns(TreeAt(1, profiles, parent)), partial, FALSE)
    /\ UNCHANGED first

Next ==
    getTypedRoutesDeclarationFile

Spec ==
    Init /\ [][Next]_vars

---------------------------------------------------------------------------
(* Repeated calls: the same function called again and again in one process *)

\* The trees of the repeated calls.
RepeatTrees ==
    {StaticRoute, SlugRoute, GroupRoute}
      \cup {[EmptyLayout EXCEPT !.children = <<c>>] :
              c \in {StaticRoute, CatchAllRoute, GroupRoute}}

RepeatOutcomes ==
    {GetRoutesThrows, GetRoutesReturns(NullNode)}
      \cup {GetRoutesReturns(t) : t \in RepeatTrees}

\* One more call; the first call of the run is remembered.
CallAgain ==
    \E result \in RepeatOutcomes, partial \in BOOLEAN, ignoreComments \in BOOLEAN :
        /\ Call(result, partial, ignoreComments)
        /\ first' = IF first.calls = 0
                    THEN [calls |-> 1, result |-> result, partial |-> partial,
                          ignore |-> ignoreComments, doc |-> doc']
                    ELSE first

NextRepeat ==
    CallAgain

SpecRepeat ==
    Init /\ [][NextRepeat]_vars

---------------------------------------------------------------------------
(* contextKeyToType at its three call sites, on keys of bounded length *)

\* The path segments of the keys: plain, groups of one and of several labels
\* (with short, long and empty labels), a slug and a catch-all.
TypeSegments ==
    {<<"a">>,
     <<"(", "a", ")">>,
     <<"(", "a", "b", ")">>,
     <<"(", "a", ",", "b", ")">>,
     <<"(", ")">>,
     <<"(", ",", ")">>,
     <<"[", "i", "d", "]">>,
     <<"[", ".", ".", ".", "s", "]">>}

RECURSIVE KeysOfSegments(_)
\* The keys of exactly n segments, each segment after a '/'.
KeysOfSegments(n) ==
    IF n = 0 THEN {<<>>}
    ELSE {k \o <<"/">> \o seg : k \in KeysOfSegments(n - 1), seg \in TypeSegments}

TypeKeys ==
    {<<"/">>} \cup UNION {KeysOfSegments(n) : n \in 1..MaxSegments}

\* One call of contextKeyToType with `argument`, made for the classified key.
TypeCall(site, key, argument, partial) ==
    /\ pc' = "done"
    /\ typeCall' = site
    /\ typeKey' = key
    /\ contextKey' = argument
    /\ partialTypedGroups' = partial
    /\ typePattern' = contextKeyToType(argument, partial)
    /\ UNCHANGED <<routeNode, testIgnoreComments, groupedNodes, doc, getRoutesResult,
                   first>>

\* generate.ts:55
StaticStringCall ==
    /\ pc = "idle"
    /\ \E key \in TypeKeys, partial \in BOOLEAN :
        TypeCall("static-string", key, StaticStringArgument(key), partial)

\* generate.ts:57, 60, 95, 98
PathnameCall ==
    /\ pc = "idle"
    /\ \E key \in TypeKeys, partial \in BOOLEAN :
        TypeCall("pathname", key, key, partial)

\* generate.ts:85-92
DynamicStringCall ==
    /\ pc = "idle"
    /\ \E key \in TypeKeys, partial \in BOOLEAN :
        TypeCall("dynamic-string", key, DynamicStringArgument(key), partial)

NextType ==
    \/ StaticStringCall
    \/ PathnameCall
    \/ DynamicStringCall

SpecType ==
    Init /\ [][NextType]_vars

---------------------------------------------------------------------------
(* What the properties below read off a key, a pattern and a tree *)

\* The path segments of a key that starts with '/'.
KeySegments(key) ==
    Tail(Split(key, "/"))

\* A segment of the shape (a,b,c): parentheses around labels without parentheses.
IsGroupSegment(seg) ==
    /\ Len(seg) >= 2
    /\ seg[1] = "("
    /\ seg[Len(seg)] = ")"
    /\ \A i \in 2..(Len(seg) - 1) : seg[i] \notin {"(", ")"}

\* The comma-separated labels of a group segment.
GroupLabels(seg) ==
    Split(SubSeq(seg, 2, Len(seg) - 1), ",")

\* The alternative '/(<label>)' as the document writes it.
QuotedAlternative(label) ==
    <<"'", "/", "(">> \o label \o <<")", "'">>

\* One alternative per label, and the empty alternative when `withEmpty`.
ExpectedAlternatives(seg, withEmpty) ==
    LET labels == GroupLabels(seg)
        perLabel == [i \in 1..Len(labels) |-> QuotedAlternative(labels[i])]
    IN  IF withEmpty THEN perLabel \o <<(<<"'", "'">>)>> ELSE perLabel

\* Where the first piece of a pattern ends: an enumerated placeholder ends at
\* its "}", any other piece before the next '/' or placeholder.
PieceEnd(p) ==
    IF p[1] = "${"
    THEN IndexFrom(p, "}", 1)
    ELSE LET nexts == {j \in 2..Len(p) : p[j] \in {"/", "${"}}
         IN  IF nexts = {} THEN Len(p)
             ELSE (CHOOSE j \in nexts : \A k \in nexts : j <= k) - 1

RECURSIVE Pieces(_)
\* A pattern cut into the pieces its segments were rendered to.
Pieces(p) ==
    IF p = <<>> THEN <<>>
    ELSE <<SubSeq(p, 1, PieceEnd(p))>> \o Pieces(SubSeq(p, PieceEnd(p) + 1, Len(p)))

IsEnumerated(piece) ==
    piece # <<>> /\ piece[1] = "${"

\* The quoted alternatives of an enumerated placeholder, in order.
AlternativesOf(piece) ==
    Split(SubSeq(piece, 2, Len(piece) - 1), " | ")

\* The text between the quotes of an alternative.
Unquoted(alternative) ==
    SubSeq(alternative, 2, Len(alternative) - 1)

RECURSIVE Admitted(_)
\* The strings a pattern of literals and enumerated placeholders admits.
Admitted(p) ==
    IF p = <<>> THEN {<<>>}
    ELSE IF p[1] = "${"
    THEN LET alts == AlternativesOf(SubSeq(p, 1, PieceEnd(p)))
             rest == Admitted(SubSeq(p, PieceEnd(p) + 1, Len(p)))
         IN  {Unquoted(alts[i]) \o r : i \in 1..Len(alts), r \in rest}
    ELSE {<<p[1]>> \o r : r \in Admitted(Tail(p))}

RECURSIVE LeadsWithSeparator(_)
\* Every string the pattern admits begins with '/'.
LeadsWithSeparator(p) ==
    IF p = <<>> THEN FALSE
    ELSE IF p[1] = "/" THEN TRUE
    ELSE IF p[1] = "${"
    THEN LET alts == AlternativesOf(SubSeq(p, 1, PieceEnd(p)))
         IN  \A i \in 1..Len(alts) :
                IF Unquoted(alts[i]) = <<>>
                THEN LeadsWithSeparator(SubSeq(p, PieceEnd(p) + 1, Len(p)))
                ELSE Unquoted(alts[i])[1] = "/"
    ELSE FALSE

\* The groups-removed literal of a key as its segments give it, then what the
\* call site does to its argument.
ExpectedWithoutGroups(key, site) ==
    LET segs == KeySegments(key)
        kept == SelectSeq(segs, LAMBDA seg : ~IsGroupSegment(seg))
        joined == Flatten([i \in 1..Len(kept) |-> <<"/">> \o kept[i]])
        literal == IF joined = <<>> THEN <<"/">> ELSE joined
    IN  CASE site = "static-string" -> literal \o <<urlParams>>
          [] site = "dynamic-string" -> DynamicStringArgument(literal)
          [] OTHER -> literal

\* A call of contextKeyToType has returned.
TypeReturned ==
    pc = "done" /\ typeCall # "none"

\* The key of the call has a group segment of `n` labels or more.
HasGroupOfLabels(n) ==
    \E i \in 1..Len(KeySegments(typeKey)) :
        /\ IsGroupSegment(KeySegments(typeKey)[i])
        /\ Len(GroupLabels(KeySegments(typeKey)[i])) >= n

\* The argument of the call is the key itself and every segment of it is a
\* group of one label.
OnlySingleLabelGroups ==
    /\ TypeReturned
    /\ contextKey = typeKey
    /\ typeKey # <<"/">>
    /\ \A i \in 1..Len(KeySegments(typeKey)) :
          /\ IsGroupSegment(KeySegments(typeKey)[i])
          /\ Len(GroupLabels(KeySegments(typeKey)[i])) = 1

RECURSIVE NodesOf(_)
RECURSIVE NodesOfAll(_)
\* Every node of a tree.
NodesOf(node) ==
    IF node = NullNode THEN {} ELSE {node} \cup NodesOfAll(node.children)

NodesOfAll(children) ==
    IF children = <<>> THEN {} ELSE NodesOf(children[1]) \cup NodesOfAll(Tail(children))

\* The keys held by a collection.
StaticKeySet(grouped) ==
    {grouped.static[i] : i \in 1..Len(grouped.static)}

DynamicKeySet(grouped) ==
    {grouped.dynamic[i].key : i \in 1..Len(grouped.dynamic)}

\* The route nodes of the tree with the same key carry the same dynamic flag.
FlagsAgreePerKey(tree) ==
    \A m, n \in {x \in NodesOf(tree) : x.type = "route"} :
        RouteKey(m) = RouteKey(n) => m.dynamic = n.dynamic

RECURSIVE ReachableRouteNodes(_, _)
RECURSIVE ReachableRouteNodesAll(_)
\* The route nodes all of whose proper ancestors are route nodes or the root
\* with an empty route.
ReachableRouteNodes(node, isRoot) ==
    IF node = NullNode THEN {}
    ELSE IF node.type = "route"
    THEN {node} \cup ReachableRouteNodesAll(node.children)
    ELSE IF isRoot /\ node.route = <<>>
    THEN ReachableRouteNodesAll(node.children)
    ELSE {}

ReachableRouteNodesAll(children) ==
    IF children = <<>> THEN {}
    ELSE ReachableRouteNodes(children[1], FALSE) \cup ReachableRouteNodesAll(Tail(children))

\* The spans <<i, j>> of the segments of a key that open with '[' and close
\* with ']'.
BracketSpans(key) ==
    {sp \in (1..Len(key)) \X (1..Len(key)) :
        /\ sp[1] < sp[2]
        /\ key[sp[1]] = "[" /\ key[sp[2]] = "]"
        /\ sp[1] = 1 \/ key[sp[1] - 1] = "/"
        /\ sp[2] = Len(key) \/ key[sp[2] + 1] = "/"
        /\ \A k \in sp[1]..sp[2] : key[k] # "/"}

RECURSIVE InOrder(_)
\* Spans from left to right.
InOrder(spans) ==
    IF spans = {} THEN <<>>
    ELSE LET m == CHOOSE x \in spans : \A y \in spans : x[1] <= y[1]
         IN  <<m>> \o InOrder(spans \ {m})

\* The bracket-delimited segments of a key without their brackets, in order.
BracketSegments(key) ==
    LET spans == InOrder(BracketSpans(key))
    IN  [k \in 1..Len(spans) |-> SubSeq(key, spans[k][1] + 1, spans[k][2] - 1)]

\* A parameter as the params object shows it: the name without the '...'
\* marker, the array type exactly when the segment carried the marker.
ExpectedField(raw, single, array) ==
    LET catchAll == Len(raw) >= 3 /\ raw[1] = "." /\ raw[2] = "." /\ raw[3] = "."
    IN  [key |-> IF catchAll THEN SubSeq(raw, 4, Len(raw)) ELSE raw,
         value |-> IF catchAll THEN array ELSE single]

ExpectedFields(key, single, array) ==
    LET raws == BracketSegments(key)
    IN  [k \in 1..Len(raws) |-> ExpectedField(raws[k], single, array)]

\* The params objects of the i-th dynamic key in the two object unions.
InputObjectOf(i) ==
    doc.hrefInputParams[2 + Len(groupedNodes.static) + i]

OutputObjectOf(i) ==
    doc.hrefOutputParams[2 + Len(groupedNodes.static) + i]

PathnameIsGeneric(entry) ==
    entry.pathname \in {<<<<"Router.RelativePathString">>>>,
                        <<<<"Router.ExternalPathString">>>>}

---------------------------------------------------------------------------
(* The properties *)

\* C1: whenever getRoutes throws or returns null, the call still returns a
\* document, and each of its three unions holds only the entries of the two
\* generic path kinds (relative, external): none comes from a route key.
C1_NullTreeGenericOnly ==
    (pc = "done" /\ (getRoutesResult.threw \/ getRoutesResult.value = NullNode))
    => /\ Len(doc.href) = 4
       /\ Len(doc.hrefInputParams) = 2
       /\ Len(doc.hrefOutputParams) = 2
       /\ \A i \in 1..4 : PathnameIsGeneric(doc.href[i])
       /\ \A i \in 1..2 : /\ PathnameIsGeneric(doc.hrefInputParams[i])
                          /\ PathnameIsGeneric(doc.hrefOutputParams[i])
       /\ {doc.href[i].pathname : i \in 1..2}
            = {<<<<"Router.RelativePathString">>>>, <<<<"Router.ExternalPathString">>>>}
       /\ \A i \in 1..4 : doc.href[i].form \in {"generic-string", "generic-object"}

\* C1 witness: a call in which getRoutes threw has returned its document.
C1_Witness ==
    pc = "done" /\ getRoutesResult.threw /\ Len(doc.href) = 4

C3_SingleLiteralOnly ==
    (OnlySingleLabelGroups /\ ~partialTypedGroups) => typePattern = <<typeKey>>

\* C3 amended: in non-permissive mode a key made only of single-label groups
\* gives exactly two patterns.  The first admits the key and nothing else: a
\* group whose label has at most one character stays as written, a group with
\* a longer label becomes a placeholder with the one alternative '/(<label>)'.
\* The second is the groups-removed literal '/'.
C3_KeyAndRoot ==
    (OnlySingleLabelGroups /\ ~partialTypedGroups)
    => /\ Len(typePattern) = 2
       /\ typePattern[2] = <<"/">>
       /\ Admitted(typePattern[1]) = {typeKey}
       /\ LET segs == KeySegments(typeKey)
              pieces == Pieces(typePattern[1])
          IN  /\ Len(pieces) = Len(segs)
              /\ \A i \in 1..Len(segs) :
                    IF Len(segs[i]) - 2 > 1
                    THEN /\ IsEnumerated(pieces[i])
                         /\ AlternativesOf(pieces[i]) = ExpectedAlternatives(segs[i], FALSE)
                    ELSE pieces[i] = <<"/">> \o segs[i]

\* C3 witness: such a key with a one-character and a longer label was typed.
C3_Witness ==
    /\ OnlySingleLabelGroups
    /\ ~partialTypedGroups
    /\ typeKey = <<"/", "(", "a", ")", "/", "(", "a", "b", ")">>
    /\ Len(typePattern) = 2

C5_PermissiveAddsEmpty ==
    (TypeReturned /\ partialTypedGroups)
    => LET segs == KeySegments(typeKey)
           pieces == Pieces(typePattern[1])
       IN  /\ Len(pieces) >= Len(segs)
           /\ \A i \in 1..Len(segs) :
                 IsGroupSegment(segs[i])
                 => /\ IsEnumerated(pieces[i])
                    /\ AlternativesOf(pieces[i]) = ExpectedAlternatives(segs[i], TRUE)
                    /\ AlternativesOf(pieces[i])
                         = ExpectedAlternatives(segs[i], FALSE) \o <<(<<"'", "'">>)>>

\* C5 witness: a single-label group was typed in permissive mode.
C5_Witness ==
    /\ TypeReturned
    /\ partialTypedGroups
    /\ typeKey = <<"/", "(", "a", ")", "/", "a">>
    /\ AlternativesOf(Pieces(typePattern[1])[1])
         = <<(<<"'", "/", "(", "a", ")", "'">>), (<<"'", "'">>)>>

\* C6: the parameter list recorded for a dynamic key is exactly its
\* bracket-delimited segments, left to right, and each is rendered in the params
\* objects under its name without brackets and without the '...' marker, as an
\* array type exactly when the segment carried the marker.
C6_ParamsExtraction ==
    pc = "done"
    => /\ \A i \in 1..Len(groupedNodes.dynamic) :
             LET key == groupedNodes.dynamic[i].key
             IN  /\ groupedNodes.dynamic[i].value = BracketSegments(key)
                 /\ InputObjectOf(i).fields
                      = ExpectedFields(key, "string | number", "(string | number)[]")
                 /\ OutputObjectOf(i).fields = ExpectedFields(key, "string", "string[]")
                 /\ key = <<"/", "b", "l", "o", "g", "/", "[", ".", ".", ".", "s", "l", "u", "g", "]">>
                    => InputObjectOf(i).fields
                         = <<[key |-> <<"s", "l", "u", "g">>, value |-> "(string | number)[]"]>>
                 /\ key = <<"/", "b", "l", "o", "g", "/", "[", "i", "d", "]">>
                    => InputObjectOf(i).fields
                         = <<[key |-> <<"i", "d">>, value |-> "string | number"]>>
       /\ (routeNode.type = "route" /\ routeNode.dynamic)
          => RouteKey(routeNode) \in DynamicKeySet(groupedNodes)

\* C6 witness: a tree with a catch-all and a slug parameter in one key.
C6_Witness ==
    /\ pc = "done"
    /\ \E i \in 1..Len(groupedNodes.dynamic) :
          /\ Len(groupedNodes.dynamic[i].value) = 2
          /\ InputObjectOf(i).fields
               = <<[key |-> <<"r", "e", "s", "t">>, value |-> "(string | number)[]"],
                   [key |-> <<"i", "d">>, value |-> "string | number"]>>

\* C7: every key placed in the static set or the dynamic map is non-empty and
\* starts with '/'; './index.tsx' and the empty contextKey give exactly '/'.
C7_KeysRooted ==
    pc = "done"
    => /\ \A key \in StaticKeySet(groupedNodes) \cup DynamicKeySet(groupedNodes) :
             key # <<>> /\ key[1] = "/"
       /\ (/\ routeNode.type = "route"
           /\ ~routeNode.generated
           /\ ~routeNode.dynamic
           /\ routeNode.contextKey
                \in {<<>>, <<".", "/", "i", "n", "d", "e", "x", ".", "t", "s", "x">>})
          => groupedNodes.static[1] = <<"/">>

\* C7 witness: './index.tsx' and a generated route were classified.
C7_Witness ==
    /\ pc = "done"
    /\ routeNode.type = "route"
    /\ routeNode.contextKey = <<".", "/", "i", "n", "d", "e", "x", ".", "t", "s", "x">>
    /\ groupedNodes.static = <<(<<"/">>), (<<"/", "_", "s", "i", "t", "e", "m", "a", "p">>)>>

\* C8: the output of a call depends only on its tree and options: a call with
\* the tree and options of the first call gives the first call's document, and
\* the collection of a call holds no key that is not of its own tree.
C8_CallsIndependent ==
    first.calls = 1
    => /\ (/\ routeNode = RouteNodeAfterTry(first.result)
           /\ partialTypedGroups = first.partial
           /\ testIgnoreComments = first.ignore)
          => doc = first.doc
       /\ StaticKeySet(groupedNodes) \cup DynamicKeySet(groupedNodes)
            \subseteq {RouteKey(n) : n \in NodesOf(routeNode)}

\* C8 witness: after a first call on one tree, a call on another tree returned.
C8_Witness ==
    /\ first.calls = 1
    /\ RouteNodeAfterTry(first.result) = GroupRoute
    /\ routeNode = SlugRoute
    /\ Len(groupedNodes.dynamic) = 1

\* C9: only the root with an empty route is a non-route node whose children are
\* visited: the collection holds exactly the keys of the route nodes all of
\* whose proper ancestors are route nodes or that root.
C9_OnlyRootLayoutEntered ==
    pc = "done"
    => StaticKeySet(groupedNodes) \cup DynamicKeySet(groupedNodes)
         = {RouteKey(n) : n \in ReachableRouteNodes(routeNode, TRUE)}

\* C10: in both modes and at every call site, every string admitted by each
\* pattern contextKeyToType returns begins with '/'.
C10_LeadingSeparator ==
    TypeReturned => \A k \in 1..Len(typePattern) : LeadsWithSeparator(typePattern[k])

============================================================================
